---- MODULE Spec2Model ----
(***************************************************************************)
(* Model of the twenty-number-challenge simulator: the gap finder          *)
(* (engine.rs find_valid_gap), the strategies (strategies.rs), one trial   *)
(* of the engine (engine.rs simulate_game_multi) and the parallel driver   *)
(* (engine.rs run_simulations_multi).                                      *)
(*                                                                         *)
(* The board size and the draw range are scaled down (NUM_SLOTS slots,     *)
(* draws 0..MaxNumber) so that every board and every draw sequence can be  *)
(* enumerated; every operator is written in terms of NUM_SLOTS and         *)
(* UPPER_BOUND, as the source is.  Slot indices are 0-based as in Rust.    *)
(***************************************************************************)
EXTENDS Integers, Sequences, FiniteSets, Bags, TLC

\* engine.rs:9 has 20 slots; scaled down.
NUM_SLOTS == 4
\* The largest number that can be drawn (999 in engine.rs:8); scaled down.
MaxNumber == 5
\* engine.rs:7
LOWER_BOUND == -1
\* engine.rs:8: 999 + 1
UPPER_BOUND == MaxNumber + 1

\* Option<i32>::None of a board slot; Some(v) is the integer v >= 0.
None == LOWER_BOUND - 1

Slots == 0 .. (NUM_SLOTS - 1)
Numbers == 0 .. (UPPER_BOUND - 1)
EmptyBoard == [s \in Slots |-> None]

\* Option<Gap>::None; a returned gap is the same record with some = TRUE.
NoGap == [some |-> FALSE, lower |-> 0, upper |-> 0, first_index |-> 0, last_index |-> 0]
Gap(lower, upper, first_index, last_index) ==
    [some |-> TRUE, lower |-> lower, upper |-> upper,
     first_index |-> first_index, last_index |-> last_index]

\* The locals of find_valid_gap before its loop (engine.rs:30-33).
ScanInit == [have_start |-> FALSE, have_end |-> FALSE, start |-> 0, end |-> NUM_SLOTS]

\* The loop of find_valid_gap from index i on (engine.rs:35-50): a smaller
\* value moves start, the first greater value sets end and breaks, an equal
\* value is skipped.
RECURSIVE ScanBoard(_, _, _, _)
ScanBoard(board, number, i, st) ==
    IF i >= NUM_SLOTS THEN st
    ELSE IF board[i] = None THEN ScanBoard(board, number, i + 1, st)
    ELSE IF board[i] < number
         THEN ScanBoard(board, number, i + 1, [st EXCEPT !.start = i, !.have_start = TRUE])
    ELSE IF board[i] > number
         THEN [st EXCEPT !.end = i, !.have_end = TRUE]
    ELSE ScanBoard(board, number, i + 1, st)

\* find_valid_gap without the test of engine.rs:64-66 for an occupied slot 0.
find_valid_gap_no_front_check(board, number) ==
    LET st == ScanBoard(board, number, 0, ScanInit) IN
    IF ~st.have_start /\ ~st.have_end
    THEN Gap(LOWER_BOUND, UPPER_BOUND, 0, NUM_SLOTS - 1)
    ELSE IF ~st.have_start
    THEN Gap(LOWER_BOUND, board[st.end], 0, st.end - 1)
    ELSE IF ~st.have_end
    THEN IF st.start = NUM_SLOTS - 1 THEN NoGap
         ELSE Gap(board[st.start], UPPER_BOUND, st.start + 1, NUM_SLOTS - 1)
    ELSE IF st.end - st.start <= 1 THEN NoGap
    ELSE Gap(board[st.start], board[st.end], st.start + 1, st.end - 1)

\* find_valid_gap without the adjacency test of engine.rs:90-92.
find_valid_gap_no_adjacency(board, number) ==
    LET st == ScanBoard(board, number, 0, ScanInit) IN
    IF ~st.have_start /\ ~st.have_end
    THEN Gap(LOWER_BOUND, UPPER_BOUND, 0, NUM_SLOTS - 1)
    ELSE IF ~st.have_start
    THEN IF st.end = 0 THEN NoGap
         ELSE Gap(LOWER_BOUND, board[st.end], 0, st.end - 1)
    ELSE IF ~st.have_end
    THEN IF st.start = NUM_SLOTS - 1 THEN NoGap
         ELSE Gap(board[st.start], UPPER_BOUND, st.start + 1, NUM_SLOTS - 1)
    ELSE Gap(board[st.start], board[st.end], st.start + 1, st.end - 1)

\* find_valid_gap with None for the empty board (engine.rs:53-60).
find_valid_gap_none_on_empty(board, number) ==
    LET st == ScanBoard(board, number, 0, ScanInit) IN
    IF ~st.have_start /\ ~st.have_end
    THEN NoGap
    ELSE IF ~st.have_start
    THEN IF st.end = 0 THEN NoGap
         ELSE Gap(LOWER_BOUND, board[st.end], 0, st.end - 1)
    ELSE IF ~st.have_end
    THEN IF st.start = NUM_SLOTS - 1 THEN NoGap
         ELSE Gap(board[st.start], UPPER_BOUND, st.start + 1, NUM_SLOTS - 1)
    ELSE IF st.end - st.start <= 1 THEN NoGap
    ELSE Gap(board[st.start], board[st.end], st.start + 1, st.end - 1)

\* engine.rs:29-100
find_valid_gap(board, number) ==
    LET st == ScanBoard(board, number, 0, ScanInit) IN
    IF ~st.have_start /\ ~st.have_end
    THEN Gap(LOWER_BOUND, UPPER_BOUND, 0, NUM_SLOTS - 1)
    ELSE IF ~st.have_start
    THEN IF st.end = 0 THEN NoGap
         ELSE Gap(LOWER_BOUND, board[st.end], 0, st.end - 1)
    ELSE IF ~st.have_end
    THEN IF st.start = NUM_SLOTS - 1 THEN NoGap
         ELSE Gap(board[st.start], UPPER_BOUND, st.start + 1, NUM_SLOTS - 1)
    ELSE IF st.end - st.start <= 1 THEN NoGap
    ELSE Gap(board[st.start], board[st.end], st.start + 1, st.end - 1)

\* The board invariant of the game: the occupied slots, by increasing index,
\* hold strictly increasing values.
BoardSorted(board) ==
    \A a, b \in Slots :
        (a < b /\ board[a] # None /\ board[b] # None) => board[a] < board[b]

Occupied(board) == {s \in Slots : board[s] # None}


(***************************************************************************)
(* Strategies (strategies.rs).  choose_slot returns a usize or panics; the *)
(* model returns Chosen(slot) or Panic(why).  The f64 arithmetic of the    *)
(* source is done here in exact integer arithmetic on the cross-multiplied *)
(* fractions (every operand is a small integer, exactly representable).    *)
(***************************************************************************)
Chosen(slot) == [ok |-> TRUE, slot |-> slot, why |-> "none"]
Panic(why) == [ok |-> FALSE, slot |-> 0, why |-> why]

Min(a, b) == IF a < b THEN a ELSE b

RECURSIVE Pow(_, _)
Pow(x, k) == IF k <= 0 THEN 1 ELSE x * Pow(x, k - 1)

\* strategies.rs:11-37
OptimalWin_choose_slot(lower, upper, first_slot, last_slot, number) ==
    LET num_slots == last_slot - first_slot + 1 IN
    IF num_slots < 3 THEN Panic("assert")
    ELSE LET slot_index == ((number - lower) * num_slots) \div (upper - lower)
         IN Chosen(first_slot + Min(slot_index, num_slots - 1))

\* strategies.rs:49-90.  epsilon_threshold is
\* epsilon_percent * (upper - lower) / (100 * num_slots); both sides of every
\* comparison are multiplied by 100 * num_slots.  A zero denominator gives NaN
\* in the source, which `as usize` turns into 0.
CautiousOptimal_choose_slot(epsilon_percent, lower, upper, first_slot, last_slot, number) ==
    LET num_slots == last_slot - first_slot + 1
        scale == 100 * num_slots
        eps == epsilon_percent * (upper - lower)
    IN
    IF num_slots < 3 THEN Panic("assert")
    ELSE IF (number - lower) * scale < eps THEN Chosen(first_slot)
    ELSE IF (upper - number) * scale < eps THEN Chosen(last_slot)
    ELSE LET num == (number - lower) * scale - eps
             den == (upper - lower) * scale - 2 * eps
             inner_slot == IF den <= 0 THEN 0 ELSE (num * (num_slots - 2)) \div den
         IN Chosen(first_slot + 1 + Min(inner_slot, num_slots - 3))

\* The values libm's erf(z) can take, on a grid of ErfGrid steps per unit:
\* erf is odd and maps into [-1, 1], so erf(z) has the sign of z.  z has the
\* sign of fraction - 0.5 = (2 * (number - lower) - (upper - lower)) / ...
ErfGrid == 2
ErfOutcomes(lower, upper, number) ==
    LET twice == 2 * (number - lower) - (upper - lower) IN
    IF twice < 0 THEN (0 - ErfGrid) .. 0
    ELSE IF twice > 0 THEN 0 .. ErfGrid
    ELSE {0}

\* strategies.rs:95-125.  erf_z is the value of erf(z) in units of 1/ErfGrid;
\* new_fraction = (ErfGrid + erf_z) / (2 * ErfGrid), and round() rounds half
\* away from zero.
Gaussian_choose_slot(lower, upper, first_slot, last_slot, number, erf_z) ==
    LET num_slots == last_slot - first_slot + 1 IN
    IF num_slots < 3 THEN Panic("assert")
    ELSE LET slot_index == ((ErfGrid + erf_z) * (num_slots - 1) + ErfGrid) \div (2 * ErfGrid)
         IN Chosen(first_slot + Min(slot_index, num_slots - 1))

\* strategies.rs:131-140 and 187-196: n choose k, 0 when k > n.
RECURSIVE binom(_, _)
binom(n, k) ==
    IF k > n THEN 0
    ELSE IF k <= 0 THEN 1
    ELSE (binom(n, k - 1) * (n - (k - 1))) \div k

\* strategies.rs:143-181.  prob is scored times (upper - lower)^remaining;
\* the loop keeps the first k whose prob is strictly greater than every
\* earlier one's.
Binomial_choose_slot(lower, upper, first_slot, last_slot, number) ==
    LET num_slots == last_slot - first_slot + 1
        remaining == num_slots - 1
        prob(k) == binom(remaining, k) * Pow(number - lower, k)
                       * Pow(upper - number, remaining - k)
    IN
    IF num_slots < 3 THEN Panic("assert")
    ELSE LET best_k == CHOOSE k \in 0 .. (num_slots - 1) :
                           /\ \A j \in 0 .. (num_slots - 1) : prob(j) <= prob(k)
                           /\ \A j \in 0 .. (k - 1) : prob(j) < prob(k)
         IN Chosen(first_slot + best_k)

\* strategies.rs:199-245, with the same loop over the likelihood.
BinomialQuantized_choose_slot(lower, upper, first_slot, last_slot, number) ==
    LET num_slots == last_slot - first_slot + 1
        num_options_lower == (number - lower) - 1
        num_options_upper == (upper - number) - 1
        remaining == num_slots - 1
        likelihood(k) == binom(num_options_lower, k) * binom(num_options_upper, remaining - k)
    IN
    IF num_slots < 3 THEN Panic("assert")
    ELSE LET best_k == CHOOSE k \in 0 .. (num_slots - 1) :
                           /\ \A j \in 0 .. (num_slots - 1) : likelihood(j) <= likelihood(k)
                           /\ \A j \in 0 .. (k - 1) : likelihood(j) < likelihood(k)
         IN Chosen(first_slot + best_k)


(***************************************************************************)
(* LookupTableStrategy (strategies.rs:247-341).  A table file is a         *)
(* sequence of lines "num_slots num_values placement_index upper_bound".   *)
(***************************************************************************)
Line(num_slots, num_values, placement_index, upper_bound) ==
    [num_slots |-> num_slots, num_values |-> num_values,
     placement_index |-> placement_index, upper_bound |-> upper_bound]

LookupKey(num_slots, num_values) == [num_slots |-> num_slots, num_values |-> num_values]
Candidate(upper_bound, placement_index) ==
    [upper_bound |-> upper_bound, placement_index |-> placement_index]

\* Vec::sort_by_key(|c| c.upper_bound) of strategies.rs:292: a stable sort,
\* as an insertion from the back.
RECURSIVE InsertSorted(_, _)
InsertSorted(sorted, cand) ==
    IF sorted = <<>> THEN <<cand>>
    ELSE IF sorted[Len(sorted)].upper_bound <= cand.upper_bound
         THEN Append(sorted, cand)
         ELSE Append(InsertSorted(SubSeq(sorted, 1, Len(sorted) - 1), cand), sorted[Len(sorted)])

RECURSIVE SortByUpperBound(_)
SortByUpperBound(vec) ==
    IF vec = <<>> THEN <<>>
    ELSE InsertSorted(SortByUpperBound(SubSeq(vec, 1, Len(vec) - 1)), vec[Len(vec)])

\* The candidates pushed for one key, in file order (strategies.rs:280-289).
CandidatesInFileOrder(file, key) ==
    LET lines == SelectSeq(file, LAMBDA l : LookupKey(l.num_slots, l.num_values) = key)
    IN [n \in 1 .. Len(lines) |-> Candidate(lines[n].upper_bound, lines[n].placement_index)]

\* LookupTableStrategy::new (strategies.rs:265-295): the map from every key
\* that has a line to its candidates, sorted by upper_bound.
LookupTableStrategy_new(file) ==
    LET keys == {LookupKey(file[n].num_slots, file[n].num_values) : n \in 1 .. Len(file)}
    IN [key \in keys |-> SortByUpperBound(CandidatesInFileOrder(file, key))]

\* The loop of strategies.rs:330-336 with > for >= at strategies.rs:333.
RECURSIVE BestCandidateIndex_strict(_, _, _)
BestCandidateIndex_strict(candidates, offset, i) ==
    IF i >= Len(candidates) THEN i
    ELSE IF candidates[i].upper_bound > offset THEN i
    ELSE BestCandidateIndex_strict(candidates, offset, i + 1)

\* The loop of strategies.rs:330-336: the index (1-based here) of the first
\* candidate whose upper_bound >= offset, or of the last candidate.
RECURSIVE BestCandidateIndex(_, _, _)
BestCandidateIndex(candidates, offset, i) ==
    IF i >= Len(candidates) THEN i
    ELSE IF candidates[i].upper_bound >= offset THEN i
    ELSE BestCandidateIndex(candidates, offset, i + 1)

\* strategies.rs:303-340
LookupTable_choose_slot(table, lower, upper, first_slot, last_slot, number) ==
    LET gap_slots == last_slot - first_slot + 1
        gap_values == upper - lower - 1
        offset == number - lower - 1
        key == LookupKey(gap_slots, gap_values)
    IN
    IF key \notin DOMAIN table THEN Panic("no lookup table entry")
    ELSE LET candidates == table[key]
             best_candidate_index == BestCandidateIndex(candidates, offset, 1)
         IN Chosen(first_slot + candidates[best_candidate_index].placement_index)

\* --- table files -------------------------------------------------------
\* Every key a gap of the board can have: 1..NUM_SLOTS slots and
\* 1..UPPER_BOUND values (upper - lower - 1 <= UPPER_BOUND - LOWER_BOUND - 1).
\* FileLines(base, min_slots) lists, key by key and by decreasing placement,
\* one line per placement p of each key (s, v) with s >= min_slots: the
\* placement p + base is taken up to offset ceil((p + 1) * v / s) - 1, a
\* proportional split of the values of the gap.
FileLines(base, min_slots) ==
    LET count == NUM_SLOTS * UPPER_BOUND * NUM_SLOTS
        decode(n) ==
            LET s == ((n - 1) \div (UPPER_BOUND * NUM_SLOTS)) + 1
                v == (((n - 1) \div NUM_SLOTS) % UPPER_BOUND) + 1
                p == (NUM_SLOTS - 1) - ((n - 1) % NUM_SLOTS)
            IN [s |-> s, v |-> v, p |-> p]
        all == [n \in 1 .. count |->
                   LET d == decode(n)
                   IN Line(d.s, d.v, d.p + base, ((d.p + 1) * d.v + d.s - 1) \div d.s - 1)]
    IN SelectSeq(all, LAMBDA l : l.placement_index - base < l.num_slots
                                 /\ l.num_slots >= min_slots)

\* A table with every key and every placement inside its key's slot count.
FileComplete == FileLines(0, 1)
\* The same table written with 1-based placement indices.
FileOneBased == FileLines(1, 1)
\* The same table without the keys of one-slot gaps.
FileNoSingleSlot == FileLines(0, 2)

\* The complete table after a stray first line for one-slot, one-value gaps.
FileStrayLine == <<Line(1, 1, 2, 0)>> \o FileComplete

\* The complete table without the last placement of every key of two slots
\* or more: the thresholds of such a key end below its largest offset.
FileShortThresholds ==
    SelectSeq(FileComplete, LAMBDA l : l.num_slots = 1 \/ l.placement_index < l.num_slots - 1)

\* The complete table without the keys of gaps that span the whole board.
FileNoWholeBoard == SelectSeq(FileComplete, LAMBDA l : l.num_slots < NUM_SLOTS)

TableComplete == LookupTableStrategy_new(FileComplete)
TableNoWholeBoard == LookupTableStrategy_new(FileNoWholeBoard)
TableShortThresholds == LookupTableStrategy_new(FileShortThresholds)
TableStrayLine == LookupTableStrategy_new(FileStrayLine)
TableOneBased == LookupTableStrategy_new(FileOneBased)
TableNoSingleSlot == LookupTableStrategy_new(FileNoSingleSlot)

TableNames ==
    {"complete", "one_based", "no_single_slot", "stray_line", "short_thresholds",
     "no_whole_board"}
TableOf(name) ==
    CASE name = "complete" -> TableComplete
      [] name = "short_thresholds" -> TableShortThresholds
      [] name = "no_whole_board" -> TableNoWholeBoard
      [] name = "one_based" -> TableOneBased
      [] name = "no_single_slot" -> TableNoSingleSlot
      [] name = "stray_line" -> TableStrayLine


(***************************************************************************)
(* Strategy instances and dispatch (the Arc<dyn Strategy> of a batch).     *)
(***************************************************************************)
Strategy(kind, epsilon_percent, table) ==
    [kind |-> kind, epsilon_percent |-> epsilon_percent, table |-> table]

OptimalWinStrategy == Strategy("OptimalWin", 0, "none")
CautiousOptimalStrategy(epsilon_percent) == Strategy("CautiousOptimal", epsilon_percent, "none")
GaussianStrategy == Strategy("Gaussian", 0, "none")
BinomialStrategy == Strategy("Binomial", 0, "none")
BinomialQuantizedStrategy == Strategy("BinomialQuantized", 0, "none")
LookupTableStrategy(table) == Strategy("LookupTable", 0, table)

\* The strategies whose choose_slot asserts num_slots >= 3.
AssertingKinds == {"OptimalWin", "CautiousOptimal", "Gaussian", "Binomial", "BinomialQuantized"}

\* The default body of Strategy::want_full_control, which the trait gives
\* every strategy that does not override it.
want_full_control_default == FALSE

\* strategies.rs:299-301 overrides it for LookupTableStrategy.
want_full_control(strategy) ==
    IF strategy.kind = "LookupTable" THEN TRUE ELSE want_full_control_default

\* The dynamic dispatch of strategy.choose_slot(lower, upper, first_slot,
\* last_slot, number, board); erf_z is read by GaussianStrategy only.
choose_slot(strategy, lower, upper, first_slot, last_slot, number, erf_z) ==
    CASE strategy.kind = "OptimalWin" ->
            OptimalWin_choose_slot(lower, upper, first_slot, last_slot, number)
      [] strategy.kind = "CautiousOptimal" ->
            CautiousOptimal_choose_slot(strategy.epsilon_percent,
                                        lower, upper, first_slot, last_slot, number)
      [] strategy.kind = "Gaussian" ->
            Gaussian_choose_slot(lower, upper, first_slot, last_slot, number, erf_z)
      [] strategy.kind = "Binomial" ->
            Binomial_choose_slot(lower, upper, first_slot, last_slot, number)
      [] strategy.kind = "BinomialQuantized" ->
            BinomialQuantized_choose_slot(lower, upper, first_slot, last_slot, number)
      [] strategy.kind = "LookupTable" ->
            LookupTable_choose_slot(TableOf(strategy.table),
                                    lower, upper, first_slot, last_slot, number)

(***************************************************************************)
(* One turn of simulate_game_multi for one strategy (engine.rs:138-179).   *)
(***************************************************************************)
\* What the engine decided: the rule that gave the slot, whether choose_slot
\* was called, and the slot (or the panic of choose_slot).
Decision(rule, called, res) == [rule |-> rule, called |-> called, res |-> res]

\* engine.rs:139-169 with the tie of the two-slot rule going to first_index
\* (<= for < at line 155).
chosen_slot_tie_first(strategy, gap, number, erf_z) ==
    IF want_full_control(strategy)
    THEN Decision("full_control", TRUE,
                  choose_slot(strategy, gap.lower, gap.upper,
                              gap.first_index, gap.last_index, number, erf_z))
    ELSE IF gap.first_index = gap.last_index \/ number = gap.lower + 1
    THEN Decision("first", FALSE, Chosen(gap.first_index))
    ELSE IF number + 1 = gap.upper
    THEN Decision("last", FALSE, Chosen(gap.last_index))
    ELSE IF gap.first_index = gap.last_index - 1
    THEN IF number - gap.lower <= gap.upper - number
         THEN Decision("two_slot", FALSE, Chosen(gap.first_index))
         ELSE Decision("two_slot", FALSE, Chosen(gap.last_index))
    ELSE Decision("delegate", TRUE,
                  choose_slot(strategy, gap.lower, gap.upper,
                              gap.first_index, gap.last_index, number, erf_z))

\* engine.rs:139-169 without the two-slot rule of lines 152-159.
chosen_slot_no_two_slot_rule(strategy, gap, number, erf_z) ==
    IF want_full_control(strategy)
    THEN Decision("full_control", TRUE,
                  choose_slot(strategy, gap.lower, gap.upper,
                              gap.first_index, gap.last_index, number, erf_z))
    ELSE IF gap.first_index = gap.last_index \/ number = gap.lower + 1
    THEN Decision("first", FALSE, Chosen(gap.first_index))
    ELSE IF number + 1 = gap.upper
    THEN Decision("last", FALSE, Chosen(gap.last_index))
    ELSE Decision("delegate", TRUE,
                  choose_slot(strategy, gap.lower, gap.upper,
                              gap.first_index, gap.last_index, number, erf_z))

\* engine.rs:139-169
chosen_slot(strategy, gap, number, erf_z) ==
    IF want_full_control(strategy)
    THEN Decision("full_control", TRUE,
                  choose_slot(strategy, gap.lower, gap.upper,
                              gap.first_index, gap.last_index, number, erf_z))
    ELSE IF gap.first_index = gap.last_index \/ number = gap.lower + 1
    THEN Decision("first", FALSE, Chosen(gap.first_index))
    ELSE IF number + 1 = gap.upper
    THEN Decision("last", FALSE, Chosen(gap.last_index))
    ELSE IF gap.first_index = gap.last_index - 1
    THEN LET dist_lower == number - gap.lower
             dist_upper == gap.upper - number
         IN IF dist_lower < dist_upper
            THEN Decision("two_slot", FALSE, Chosen(gap.first_index))
            ELSE Decision("two_slot", FALSE, Chosen(gap.last_index))
    ELSE Decision("delegate", TRUE,
                  choose_slot(strategy, gap.lower, gap.upper,
                              gap.first_index, gap.last_index, number, erf_z))

\* The values erf can return in this turn (one dummy value when erf is not
\* called).
ErfChoices(strategy, board, number) ==
    LET gap == find_valid_gap(board, number) IN
    IF strategy.kind = "Gaussian" /\ gap.some
    THEN ErfOutcomes(gap.lower, gap.upper, number)
    ELSE {0}

\* The per-strategy state of a trial.
Player(board, placed_count, completed) ==
    [board |-> board, placed_count |-> placed_count, completed |-> completed]

\* The outcome of a turn: the new per-strategy state, "ok" or the panic that
\* aborted the trial, and what was decided.
Turn(player, panic, gap, decision) ==
    [player |-> player, panic |-> panic, gap |-> gap, decision |-> decision]

\* engine.rs:138-179 for one strategy that is not yet completed.
take_turn(strategy, player, number, erf_z) ==
    LET gap == find_valid_gap(player.board, number) IN
    IF gap.some
    THEN LET d == chosen_slot(strategy, gap, number, erf_z) IN
         IF ~d.res.ok THEN Turn(player, d.res.why, gap, d)
         ELSE IF d.res.slot \notin Slots THEN Turn(player, "index out of bounds", gap, d)
         ELSE LET placed == player.placed_count + 1
              IN Turn(Player([player.board EXCEPT ![d.res.slot] = number], placed,
                             placed = NUM_SLOTS),
                      "ok", gap, d)
    ELSE Turn(Player(player.board, player.placed_count, TRUE), "ok", gap,
              Decision("no_gap", FALSE, Chosen(0)))


(***************************************************************************)
(* State.  A batch is a sequence of strategies; position k of the model is *)
(* index k - 1 of the source.                                              *)
(***************************************************************************)
VARIABLES
    strategies,     \* simulate_game_multi / run_simulations_multi: the batch
    numbers,        \* simulate_game_multi: the draws generated so far
    boards,         \* simulate_game_multi: one board per strategy
    placed_counts,  \* simulate_game_multi: one counter per strategy
    completed,      \* simulate_game_multi: one flag per strategy
    pc,             \* simulate_game_multi: "generate", "play", "done", "panicked"
    draw,           \* position in numbers of the draw being played
    turn,           \* position in the batch of the strategy to play next
    last,           \* history: the latest turn taken (see LastTurn)
    fn_board,       \* find_valid_gap applied alone: its board argument
    fn_number,      \* ... its number argument
    fn_gap,         \* ... its result, once applied
    fn_pc,          \* ... "idle", "call", "returned"
    num_simulations,\* run_simulations_multi: the number of trials
    mapped,         \* run_simulations_multi: the ids of the trials whose map closure ran
    results,        \* ... the placed counts each of them returned
    pending,        \* ... the bag of histograms not yet combined
    histograms,     \* ... the value of the reduction, once returned
    identities,     \* ... the number of identity values made so far
    trial_outcomes, \* ... what simulate_game_multi can return for the batch
    run_pc          \* ... "idle", "running", "returned"

engine_vars == <<strategies, numbers, boards, placed_counts, completed, pc, draw, turn, last>>
gap_vars == <<fn_board, fn_number, fn_gap, fn_pc>>
run_vars == <<num_simulations, mapped, results, pending, histograms, identities,
              trial_outcomes, run_pc>>
vars == <<engine_vars, gap_vars, run_vars>>

\* The strategies a batch is made of.
Cautious80 == 80
Cautious100 == 100
Pool ==
    {OptimalWinStrategy, CautiousOptimalStrategy(Cautious80),
     CautiousOptimalStrategy(Cautious100), GaussianStrategy, BinomialStrategy,
     BinomialQuantizedStrategy}
    \cup {LookupTableStrategy(t) : t \in TableNames}

\* The batches of the model: no strategy, every strategy alone, and some
\* mixed batches.
Batches ==
    {<<>>}
    \cup {<<s>> : s \in Pool}
    \cup {<<OptimalWinStrategy, LookupTableStrategy("complete")>>,
          <<LookupTableStrategy("no_single_slot"), BinomialStrategy>>,
          <<GaussianStrategy, OptimalWinStrategy>>,
          <<BinomialQuantizedStrategy, CautiousOptimalStrategy(Cautious80), OptimalWinStrategy>>}

Positions == 1 .. Len(strategies)

LastTurn(k, number, before, t) ==
    [k |-> k, number |-> number, before |-> before, gap |-> t.gap,
     decision |-> t.decision, panic |-> t.panic]
NoTurn == LastTurn(0, 0, EmptyBoard,
                   Turn(Player(EmptyBoard, 0, FALSE), "ok", NoGap,
                        Decision("none", FALSE, Chosen(0))))

GapIdle == /\ fn_board = EmptyBoard
           /\ fn_number = 0
           /\ fn_gap = NoGap
           /\ fn_pc = "idle"
RunIdle == /\ num_simulations = 0
           /\ mapped = {}
           /\ results = <<>>
           /\ pending = EmptyBag
           /\ histograms = <<>>
           /\ identities = 0
           /\ trial_outcomes = {}
           /\ run_pc = "idle"

(***************************************************************************)
(* Spec: one call of simulate_game_multi (engine.rs:112-201).              *)
(***************************************************************************)
Init ==
    /\ strategies \in Batches
    /\ numbers = <<>>
    /\ boards = <<>>
    /\ placed_counts = <<>>
    /\ completed = <<>>
    /\ pc = "generate"
    /\ draw = 0
    /\ turn = 0
    /\ last = NoTurn
    /\ GapIdle
    /\ RunIdle

Range(seq) == {seq[n] : n \in 1 .. Len(seq)}

\* engine.rs:119-124: one pass of the loop that pushes a number; a number
\* that is already contained is rejected and leaves the state unchanged.
GenerateNumber ==
    /\ pc = "generate"
    /\ Len(numbers) < NUM_SLOTS
    /\ \E number \in Numbers :
          /\ number \notin Range(numbers)
          /\ numbers' = Append(numbers, number)
    /\ UNCHANGED <<strategies, boards, placed_counts, completed, pc, draw, turn, last>>
    /\ UNCHANGED <<gap_vars, run_vars>>

\* engine.rs:127-131: the boards and trackers, and the first draw.
PrepareBoards ==
    /\ pc = "generate"
    /\ Len(numbers) = NUM_SLOTS
    /\ boards' = [k \in Positions |-> EmptyBoard]
    /\ placed_counts' = [k \in Positions |-> 0]
    /\ completed' = [k \in Positions |-> FALSE]
    /\ pc' = "play"
    /\ draw' = 1
    /\ turn' = 1
    /\ UNCHANGED <<strategies, numbers, last>>
    /\ UNCHANGED <<gap_vars, run_vars>>

\* engine.rs:134-136: a completed strategy is skipped.
SkipCompleted ==
    /\ pc = "play"
    /\ turn \in Positions
    /\ completed[turn]
    /\ turn' = turn + 1
    /\ UNCHANGED <<strategies, numbers, boards, placed_counts, completed, pc, draw, last>>
    /\ UNCHANGED <<gap_vars, run_vars>>

\* engine.rs:138-179: the strategy at `turn` plays the current draw.
TakeTurn ==
    /\ pc = "play"
    /\ turn \in Positions
    /\ ~completed[turn]
    /\ LET strategy == strategies[turn]
           number == numbers[draw]
           player == Player(boards[turn], placed_counts[turn], completed[turn])
       IN \E erf_z \in ErfChoices(strategy, boards[turn], number) :
            LET t == take_turn(strategy, player, number, erf_z) IN
            /\ last' = LastTurn(turn, number, boards[turn], t)
            /\ IF t.panic = "ok"
               THEN /\ boards' = [boards EXCEPT ![turn] = t.player.board]
                    /\ placed_counts' = [placed_counts EXCEPT ![turn] = t.player.placed_count]
                    /\ completed' = [completed EXCEPT ![turn] = t.player.completed]
                    /\ turn' = turn + 1
                    /\ pc' = pc
               ELSE /\ pc' = "panicked"
                    /\ UNCHANGED <<boards, placed_counts, completed, turn>>
    /\ UNCHANGED <<strategies, numbers, draw>>
    /\ UNCHANGED <<gap_vars, run_vars>>

\* EndOfDraw without the early exit of engine.rs:183-185.
EndOfDraw_no_early_exit ==
    /\ pc = "play"
    /\ turn = Len(strategies) + 1
    /\ IF draw = Len(numbers)
       THEN /\ pc' = "done"
            /\ UNCHANGED <<draw, turn>>
       ELSE /\ draw' = draw + 1
            /\ turn' = 1
            /\ pc' = pc
    /\ UNCHANGED <<strategies, numbers, boards, placed_counts, completed, last>>
    /\ UNCHANGED <<gap_vars, run_vars>>

\* EndOfDraw with any for all at engine.rs:183.
EndOfDraw_exit_on_any ==
    /\ pc = "play"
    /\ turn = Len(strategies) + 1
    /\ IF (\E k \in Positions : completed[k]) \/ draw = Len(numbers)
       THEN /\ pc' = "done"
            /\ UNCHANGED <<draw, turn>>
       ELSE /\ draw' = draw + 1
            /\ turn' = 1
            /\ pc' = pc
    /\ UNCHANGED <<strategies, numbers, boards, placed_counts, completed, last>>
    /\ UNCHANGED <<gap_vars, run_vars>>

\* engine.rs:182-186 and the head of the loop at 131: after the last strategy
\* of the batch, stop if every strategy has completed or the numbers are used
\* up, else go to the next draw.
EndOfDraw ==
    /\ pc = "play"
    /\ turn = Len(strategies) + 1
    /\ IF (\A k \in Positions : completed[k]) \/ draw = Len(numbers)
       THEN /\ pc' = "done"
            /\ UNCHANGED <<draw, turn>>
       ELSE /\ draw' = draw + 1
            /\ turn' = 1
            /\ pc' = pc
    /\ UNCHANGED <<strategies, numbers, boards, placed_counts, completed, last>>
    /\ UNCHANGED <<gap_vars, run_vars>>

Next == GenerateNumber \/ PrepareBoards \/ SkipCompleted \/ TakeTurn \/ EndOfDraw

Spec == Init /\ [][Next]_vars


(***************************************************************************)
(* SpecGap: find_valid_gap applied to one board and one number             *)
(* (engine.rs:29-100).                                                     *)
(***************************************************************************)
AllBoards == [Slots -> Numbers \cup {None}]

EngineIdle ==
    /\ strategies = <<>>
    /\ numbers = <<>>
    /\ boards = <<>>
    /\ placed_counts = <<>>
    /\ completed = <<>>
    /\ pc = "idle"
    /\ draw = 0
    /\ turn = 0
    /\ last = NoTurn

GapInit ==
    /\ fn_board \in AllBoards
    /\ fn_number \in Numbers
    /\ fn_gap = NoGap
    /\ fn_pc = "call"
    /\ EngineIdle
    /\ RunIdle

CallFindValidGap ==
    /\ fn_pc = "call"
    /\ fn_gap' = find_valid_gap(fn_board, fn_number)
    /\ fn_pc' = "returned"
    /\ UNCHANGED <<fn_board, fn_number, engine_vars, run_vars>>

GapNext == CallFindValidGap

SpecGap == GapInit /\ [][GapNext]_vars

(***************************************************************************)
(* simulate_game_multi as a function of the batch and of its 20 numbers    *)
(* (engine.rs:126-201), from the same take_turn as the step actions; erf   *)
(* is not called by the batches it is applied to.                          *)
(***************************************************************************)
Trial(players, panic) == [players |-> players, panic |-> panic]

Players == [board : AllBoards, placed_count : 0 .. NUM_SLOTS, completed : BOOLEAN]

\* engine.rs:138-179 as a function of the batch: turns[k][player, number] is
\* what the strategy at position k makes of its state and of a number.
turns_of(batch) ==
    [k \in 1 .. Len(batch) |->
        [player \in Players, number \in Numbers |->
            take_turn(batch[k], player, number, 0)]]

\* engine.rs:132-180: the strategies from position k on play one number.
RECURSIVE play_number(_, _, _, _)
play_number(turns, trial, number, k) ==
    IF k > Len(turns) \/ trial.panic # "ok" THEN trial
    ELSE IF trial.players[k].completed THEN play_number(turns, trial, number, k + 1)
    ELSE play_number(turns,
                     Trial([trial.players EXCEPT ![k] = turns[k][trial.players[k], number].player],
                           turns[k][trial.players[k], number].panic),
                     number, k + 1)

\* engine.rs:182-186: every strategy has completed.
all_completed(trial) == \A k \in 1 .. Len(trial.players) : trial.players[k].completed

\* engine.rs:131-186: the numbers from position d on are played, until every
\* strategy has completed.
RECURSIVE play_numbers(_, _, _, _)
play_numbers(turns, trial, nums, d) ==
    IF d > Len(nums) \/ trial.panic # "ok" \/ (d > 1 /\ all_completed(trial)) THEN trial
    ELSE play_numbers(turns, play_number(turns, trial, nums[d], 1), nums, d + 1)

\* engine.rs:112-201: the placed counts returned, or the panic.
simulate_game_multi(batch, nums) ==
    LET start == Trial([k \in 1 .. Len(batch) |-> Player(EmptyBoard, 0, FALSE)], "ok")
        final == play_numbers(turns_of(batch), start, nums, 1)
    IN [panic |-> final.panic,
        placed_counts |-> [k \in 1 .. Len(batch) |-> final.players[k].placed_count]]

\* engine.rs:118-124: every sequence of NUM_SLOTS distinct numbers.
DrawSequences ==
    {nums \in [1 .. NUM_SLOTS -> Numbers] :
        \A a, b \in 1 .. NUM_SLOTS : a # b => nums[a] # nums[b]}

(***************************************************************************)
(* SpecRun: run_simulations_multi (engine.rs:213-249).  The parallel       *)
(* iterator runs the map closure once per trial, in any order, and reduce  *)
(* combines the local histograms and any number of identity values, in any *)
(* grouping and order, until one value is left.                            *)
(***************************************************************************)
\* The largest num_simulations, and the most identity values reduce makes.
MaxSimulations == 2
MaxIdentities == 1

RunBatches ==
    {<<>>,
     <<BinomialStrategy>>,
     <<OptimalWinStrategy, LookupTableStrategy("complete")>>,
     <<LookupTableStrategy("no_single_slot"), BinomialStrategy>>}

\* What a call of simulate_game_multi can return for a batch.
TrialOutcomes(batch) == {simulate_game_multi(batch, nums) : nums \in DrawSequences}

Buckets == 0 .. NUM_SLOTS

\* engine.rs:233 (and 226): vec![[0; NUM_SLOTS + 1]; num_strategies]
identity_hist(num_strategies) == [k \in 1 .. num_strategies |-> [b \in Buckets |-> 0]]

\* The map closure that counts the first strategy only.
local_hist_first_only(placed) ==
    [k \in 1 .. Len(placed) |->
        [b \in Buckets |-> IF b = placed[k] /\ k = 1 THEN 1 ELSE 0]]

\* engine.rs:226-230: the local histogram of one trial's results.
local_hist_of(placed) ==
    [k \in 1 .. Len(placed) |-> [b \in Buckets |-> IF b = placed[k] THEN 1 ELSE 0]]

\* The reduce closure with = for += at engine.rs:237.
reduce_op_overwrite(acc, local_hist) ==
    [k \in 1 .. Len(acc) |-> [b \in Buckets |-> local_hist[k][b]]]

\* engine.rs:234-241: the reduce closure.
reduce_op(acc, local_hist) ==
    [k \in 1 .. Len(acc) |-> [b \in Buckets |-> acc[k][b] + local_hist[k][b]]]

TrialIds == 0 .. (num_simulations - 1)

RunInit ==
    /\ strategies \in RunBatches
    /\ num_simulations \in 0 .. MaxSimulations
    /\ mapped = {}
    /\ results = <<>>
    /\ pending = EmptyBag
    /\ histograms = <<>>
    /\ identities = 0
    /\ trial_outcomes = TrialOutcomes(strategies)
    /\ run_pc = "running"
    /\ numbers = <<>>
    /\ boards = <<>>
    /\ placed_counts = <<>>
    /\ completed = <<>>
    /\ pc = "idle"
    /\ draw = 0
    /\ turn = 0
    /\ last = NoTurn
    /\ GapIdle

\* engine.rs:224-231: the map closure runs for one trial.
MapTrial ==
    /\ run_pc = "running"
    /\ \E id \in TrialIds \ mapped :
       \E outcome \in trial_outcomes :
          /\ mapped' = mapped \cup {id}
          /\ IF outcome.panic = "ok"
             THEN /\ results' = (id :> outcome.placed_counts) @@ results
                  /\ pending' = pending (+) SetToBag({local_hist_of(outcome.placed_counts)})
                  /\ run_pc' = run_pc
             ELSE /\ run_pc' = "panicked"
                  /\ UNCHANGED <<results, pending>>
    /\ UNCHANGED <<num_simulations, histograms, identities, trial_outcomes>>
    /\ UNCHANGED <<engine_vars, gap_vars>>

\* engine.rs:233: reduce makes an identity value.
MakeIdentity ==
    /\ run_pc = "running"
    /\ identities < MaxIdentities
    /\ identities' = identities + 1
    /\ pending' = pending (+) SetToBag({identity_hist(Len(strategies))})
    /\ UNCHANGED <<num_simulations, mapped, results, histograms, trial_outcomes, run_pc>>
    /\ UNCHANGED <<engine_vars, gap_vars>>

\* engine.rs:234-241: reduce combines two of the values it holds.
Combine ==
    /\ run_pc = "running"
    /\ \E acc \in BagToSet(pending) :
       \E local_hist \in BagToSet(pending (-) SetToBag({acc})) :
          pending' = ((pending (-) SetToBag({acc})) (-) SetToBag({local_hist}))
                         (+) SetToBag({reduce_op(acc, local_hist)})
    /\ UNCHANGED <<num_simulations, mapped, results, histograms, identities, trial_outcomes, run_pc>>
    /\ UNCHANGED <<engine_vars, gap_vars>>

\* engine.rs:242-248: every trial is mapped and one value is left: it is the
\* value of the reduction, returned with the names.
ReturnHistograms ==
    /\ run_pc = "running"
    /\ mapped = TrialIds
    /\ BagCardinality(pending) = 1
    /\ \E h \in BagToSet(pending) : histograms' = h
    /\ run_pc' = "returned"
    /\ UNCHANGED <<num_simulations, mapped, results, pending, identities, trial_outcomes>>
    /\ UNCHANGED <<engine_vars, gap_vars>>

RunNext == MapTrial \/ MakeIdentity \/ Combine \/ ReturnHistograms

SpecRun == RunInit /\ [][RunNext]_vars

----------------------------------------------------------------------------
(***************************************************************************)
(* Claims about find_valid_gap (SpecGap).                                  *)
(***************************************************************************)
OnBoard(board, number) == \E s \in Slots : board[s] = number

MinOf(S) == CHOOSE x \in S : \A y \in S : x <= y
MaxOf(S) == CHOOSE x \in S : \A y \in S : y <= x

\* The occupied slots holding a smaller / a greater value than number.
SmallerSlots(board, number) == {s \in Occupied(board) : board[s] < number}
GreaterSlots(board, number) == {s \in Occupied(board) : board[s] > number}

\* A returned gap is a non-empty index range of empty slots whose bounds
\* strictly bracket the number.
GapWellFormed(board, number, gap) ==
    /\ gap.first_index <= gap.last_index
    /\ \A s \in gap.first_index .. gap.last_index : s \in Slots /\ board[s] = None
    /\ gap.lower < number
    /\ number < gap.upper

NoIntegerBetween(board, number) ==
    /\ SmallerSlots(board, number) # {}
    /\ GreaterSlots(board, number) # {}
    /\ LET lo == MaxOf({board[s] : s \in SmallerSlots(board, number)})
           hi == MinOf({board[s] : s \in GreaterSlots(board, number)})
       IN hi - lo <= 1

\* No empty slot lies between the occupied slots bracketing number.
NoSlotBetween(board, number) ==
    /\ SmallerSlots(board, number) # {}
    /\ GreaterSlots(board, number) # {}
    /\ MinOf(GreaterSlots(board, number)) - MaxOf(SmallerSlots(board, number)) <= 1

\* number is below every occupied value and slot 0 is occupied / above every
\* occupied value and the last slot is occupied.
NoRoomBefore(board, number) ==
    /\ SmallerSlots(board, number) = {}
    /\ GreaterSlots(board, number) # {}
    /\ MinOf(GreaterSlots(board, number)) = 0
NoRoomAfter(board, number) ==
    /\ GreaterSlots(board, number) = {}
    /\ SmallerSlots(board, number) # {}
    /\ MaxOf(SmallerSlots(board, number)) = NUM_SLOTS - 1

\* C4 as stated: find_valid_gap returns None if and only if no integer lies
\* strictly between the two occupied values bracketing the number, or there
\* is no room before the first / after the last occupied slot.
C4_NoIntegerBetween ==
    (fn_pc = "returned" /\ BoardSorted(fn_board))
        => (~fn_gap.some <=> \/ NoIntegerBetween(fn_board, fn_number)
                             \/ NoRoomBefore(fn_board, fn_number)
                             \/ NoRoomAfter(fn_board, fn_number))

\* C4 amended: on every board with the strictly-increasing invariant,
\* find_valid_gap returns None if and only if no empty slot lies between the
\* two occupied slots bracketing the number (they are adjacent), or there is
\* no room before the first / after the last occupied slot.
C4_NoneIffNoRoom ==
    (fn_pc = "returned" /\ BoardSorted(fn_board))
        => (~fn_gap.some <=> \/ NoSlotBetween(fn_board, fn_number)
                             \/ NoRoomBefore(fn_board, fn_number)
                             \/ NoRoomAfter(fn_board, fn_number))

\* C4 witness: None was returned for a number with integers, but no empty
\* slot, between its bracketing occupied values.
C4_Witness ==
    /\ fn_pc = "returned"
    /\ BoardSorted(fn_board)
    /\ ~fn_gap.some
    /\ NoSlotBetween(fn_board, fn_number)
    /\ ~NoIntegerBetween(fn_board, fn_number)
    /\ ~OnBoard(fn_board, fn_number)

----------------------------------------------------------------------------
(***************************************************************************)
(* Claims about one trial of simulate_game_multi (Spec).                   *)
(***************************************************************************)
Playing == pc \in {"play", "done", "panicked"}

GapSlots(gap) == gap.last_index - gap.first_index + 1

\* The latest turn called choose_slot and got a slot back.
LastReturned == last.k # 0 /\ last.decision.called /\ last.decision.res.ok

\* C1 as stated: after every placement, for every strategy of the batch, the
\* occupied slots of its board hold strictly increasing values.
C1_BoardsSorted ==
    Playing => \A k \in Positions : BoardSorted(boards[k])

\* C5 as stated: whenever choose_slot of a strategy returns, the index lies
\* in [first_index, last_index] of the gap it was given.
C5_ChoiceInGap ==
    LastReturned =>
        /\ last.gap.first_index <= last.decision.res.slot
        /\ last.decision.res.slot <= last.gap.last_index

\* C8 as stated: every placement goes to a slot that is empty, so that at
\* every point a strategy's placed_count is the number of occupied slots of
\* its board.
C8_PlacedIsOccupied ==
    Playing => \A k \in Positions : placed_counts[k] = Cardinality(Occupied(boards[k]))

\* The slot the five rules of the claim force, or NotForced when none of
\* rules 1-4 applies (rule 5: the strategy is asked).
NotForced == None
ForcedSlot(gap, number) ==
    IF GapSlots(gap) = 1 THEN gap.first_index
    ELSE IF number = gap.lower + 1 THEN gap.first_index
    ELSE IF number + 1 = gap.upper THEN gap.last_index
    ELSE IF GapSlots(gap) = 2
         THEN IF number - gap.lower < gap.upper - number
              THEN gap.first_index
              ELSE gap.last_index
    ELSE NotForced

\* The latest turn followed rules 1-5.
LastFollowsRules ==
    IF ForcedSlot(last.gap, last.number) = NotForced
    THEN last.decision.called
    ELSE /\ ~last.decision.called
         /\ last.decision.res.slot = ForcedSlot(last.gap, last.number)

AllCompleted == \A k \in Positions : completed[k]

\* C9: Won and Lost are terminal (a completed strategy's board, counter and
\* flag no longer change); a strategy completes only by filling the board or
\* on a draw without a gap; no further draw is played once every strategy has
\* completed; a trial that ends has every strategy completed within
\* NUM_SLOTS draws.
C9_Terminal ==
    /\ [](pc = "done" => (AllCompleted /\ draw <= NUM_SLOTS))
    /\ [](Playing => \A k \in Positions : placed_counts[k] = NUM_SLOTS => completed[k])
    /\ [][pc = "play" =>
            \A k \in Positions :
                /\ completed[k] => /\ boards'[k] = boards[k]
                                  /\ placed_counts'[k] = placed_counts[k]
                                  /\ completed'[k]
                /\ (~completed[k] /\ completed'[k]) =>
                       \/ placed_counts'[k] = NUM_SLOTS
                       \/ /\ ~find_valid_gap(boards[k], numbers[draw]).some
                          /\ boards'[k] = boards[k]
                          /\ placed_counts'[k] = placed_counts[k]]_vars
    /\ [][(pc = "play" /\ AllCompleted) => (draw' = draw /\ boards' = boards)]_vars

\* C9 witness: a trial of two strategies ended early, one of them having
\* lost on an earlier draw than the other.
C9_Witness ==
    /\ pc = "done"
    /\ Len(strategies) = 2
    /\ draw < NUM_SLOTS
    /\ AllCompleted
    /\ placed_counts[1] # placed_counts[2]

\* C10: choose_slot of a strategy that asserts num_slots >= 3 is never called
\* with a gap of fewer than 3 slots, and no such assertion fails.
C10_NoAssertFailure ==
    (last.k # 0 /\ last.decision.called /\ strategies[last.k].kind \in AssertingKinds)
        => (GapSlots(last.gap) >= 3 /\ last.panic # "assert")

\* C10 witness: such a strategy was asked about a gap of exactly 3 slots,
\* after a draw that met none of the forced rules.
C10_Witness ==
    /\ last.k # 0
    /\ last.decision.called
    /\ strategies[last.k].kind \in AssertingKinds
    /\ GapSlots(last.gap) = 3
    /\ boards[last.k][last.decision.res.slot] = last.number

----------------------------------------------------------------------------
(***************************************************************************)
(* Claims about run_simulations_multi (SpecRun).                           *)
(***************************************************************************)
RECURSIVE SumBuckets(_, _)
SumBuckets(hist, b) == IF b < 0 THEN 0 ELSE hist[b] + SumBuckets(hist, b - 1)

\* C6: when run_simulations_multi has returned, the NUM_SLOTS + 1 buckets of
\* every strategy's histogram sum to num_simulations.
C6_BucketsSumToN ==
    run_pc = "returned" =>
        /\ Len(histograms) = Len(strategies)
        /\ \A k \in Positions : SumBuckets(histograms[k], NUM_SLOTS) = num_simulations

\* C6 witness: a run of MaxSimulations trials of a batch of several
\* strategies has returned.
C6_Witness ==
    /\ run_pc = "returned"
    /\ num_simulations = MaxSimulations
    /\ Len(strategies) >= 2
    /\ \E k \in Positions : \E b \in Buckets : histograms[k][b] >= 2

\* The histograms of the trials run one after the other: bucket b of
\* strategy k counts the trials in which k placed b numbers.
SequentialHistograms ==
    [k \in Positions |->
        [b \in Buckets |-> Cardinality({id \in TrialIds : results[id][k] = b})]]

\* C7: for given results of the trials, the histograms returned are those of
\* running the trials one after the other, whatever the order of the map
\* calls and the grouping and order of the reduction.
C7_OrderIndependent ==
    run_pc = "returned" => histograms = SequentialHistograms

\* C7 witness: a run has returned whose trials gave pairwise different
\* results and whose reduction made an identity value (so that the order of
\* the reduction had values to permute).
C7_Witness ==
    /\ run_pc = "returned"
    /\ num_simulations = MaxSimulations
    /\ identities > 0
    /\ \A a, b \in TrialIds : a # b => results[a] # results[b]

----------------------------------------------------------------------------
(***************************************************************************)
(* Claims about LookupTableStrategy::choose_slot (Spec, on the latest      *)
(* turn).                                                                  *)
(***************************************************************************)
\* The latest turn called choose_slot of a LookupTableStrategy.
LastLookup ==
    /\ last.k # 0
    /\ last.decision.called
    /\ strategies[last.k].kind = "LookupTable"

LastTable == TableOf(strategies[last.k].table)
LastKey == LookupKey(GapSlots(last.gap), last.gap.upper - last.gap.lower - 1)
LastOffset == last.number - last.gap.lower - 1

\* The entries of the latest key, and those whose threshold is >= the offset.
LastEntries == {LastTable[LastKey][n] : n \in 1 .. Len(LastTable[LastKey])}
LastFitting == {c \in LastEntries : c.upper_bound >= LastOffset}

\* The latest call returned first_index plus the placement of an entry of
\* the least threshold among the given entries.
ReturnedLeastOf(entries) ==
    /\ last.decision.res.ok
    /\ \E c \in entries :
          /\ \A e \in entries : c.upper_bound <= e.upper_bound
          /\ last.decision.res.slot = last.gap.first_index + c.placement_index

\* The latest call returned first_index plus the placement of an entry of
\* the greatest threshold.
ReturnedLast ==
    /\ last.decision.res.ok
    /\ \E c \in LastEntries :
          /\ \A e \in LastEntries : e.upper_bound <= c.upper_bound
          /\ last.decision.res.slot = last.gap.first_index + c.placement_index

LastPanicked == ~last.decision.res.ok /\ last.decision.res.why = "no lookup table entry"

\* C11 as stated: choose_slot of a LookupTableStrategy returns first_index
\* plus the placement of the first entry of the key, in ascending threshold
\* order, whose threshold is >= offset, and panics if the key has no entry.
C11_FirstFitting ==
    LastLookup =>
        IF LastKey \in DOMAIN LastTable
        THEN LastFitting # {} /\ ReturnedLeastOf(LastFitting)
        ELSE LastPanicked

\* C11 amended: as stated when some entry of the key has a threshold >=
\* offset; when none has, choose_slot returns first_index plus the placement
\* of the last entry in ascending threshold order.
C11_FirstFittingOrLast ==
    LastLookup =>
        IF LastKey \in DOMAIN LastTable
        THEN IF LastFitting # {} THEN ReturnedLeastOf(LastFitting) ELSE ReturnedLast
        ELSE LastPanicked

\* C11 witness: the scan passed over an entry whose threshold is below the
\* offset and returned the placement of a later one.
C11_Witness ==
    /\ LastLookup
    /\ LastKey \in DOMAIN LastTable
    /\ LastFitting # {}
    /\ LastFitting # LastEntries
    /\ last.decision.res.ok

----------------------------------------------------------------------------
(***************************************************************************)
(* Claims that compare a trial of a batch with the trial of one of its     *)
(* strategies alone on the same numbers (Spec for the batch, the function  *)
(* simulate_game_multi for the strategy alone).  GaussianStrategy is left  *)
(* out of the comparison: the function is not applied to it.               *)
(***************************************************************************)
Comparable == {k \in Positions : strategies[k].kind # "Gaussian"}

\* The trial of the strategy at position k alone, on the numbers of the
\* trial of the batch.
AloneTrial(k) ==
    play_numbers(turns_of(<<strategies[k]>>),
                 Trial(<<Player(EmptyBoard, 0, FALSE)>>, "ok"), numbers, 1)

\* The strategy at position k ended the trial of the batch as it ends the
\* trial alone.
SameAsAlone(k) ==
    /\ pc = "done"
    /\ boards[k] = AloneTrial(k).players[1].board
    /\ placed_counts[k] = AloneTrial(k).players[1].placed_count

----------------------------------------------------------------------------
(***************************************************************************)
(* Claims about the first draw of a trial (Spec).                          *)
(***************************************************************************)
\* The latest turn was a strategy's turn on the first draw.
LastOnFirstDraw == last.k # 0 /\ draw = 1

WholeBoardGap == Gap(LOWER_BOUND, UPPER_BOUND, 0, NUM_SLOTS - 1)

\* The strategy of the latest turn has placed the number of that turn.
LastPlaced ==
    /\ last.panic = "ok"
    /\ placed_counts[last.k] = 1
    /\ OnBoard(boards[last.k], last.number)

\* The trial has returned placed counts in 1 .. NUM_SLOTS, which count in no
\* bucket 0 of the local histogram of engine.rs:226-230.
ReturnedPlacedCounts ==
    \A k \in Positions :
        /\ placed_counts[k] \in 1 .. NUM_SLOTS
        /\ local_hist_of(placed_counts)[k][0] = 0

C13_BucketZeroEmpty ==
    run_pc = "returned" => \A k \in Positions : histograms[k][0] = 0

====
